---- MODULE Spec2Model ----
(***************************************************************************)
(* Model of thug/Logging/modules/JSON.py: the JSON analysis-event          *)
(* recorder.  The state is the JSON object's fields (data, cached_data,    *)
(* provider) and the run configuration it reads (log.ThugOpts,             *)
(* log.ThugLogging.formats).  There is one action per public method.       *)
(*                                                                         *)
(* Python values are records tagged with their kind.  Text is a sequence   *)
(* of one-character strings, so that the newline removal and the trimming  *)
(* of fix and the escaping of json.dump are computed, not assumed.         *)
(***************************************************************************)
EXTENDS Integers, Sequences, FiniteSets, TLC

VARIABLES
    json_logging,   \* log.ThugOpts.json_logging
    file_logging,   \* log.ThugOpts.file_logging
    formats,        \* log.ThugLogging.formats
    provider,       \* self.provider
    data,           \* self.data, the report document
    cached_data,    \* self.cached_data: None or the text held by the StringIO
    last,           \* the most recent call: its name and what it returned
    calls           \* the collaborator calls made by the most recent call

vars == <<json_logging, file_logging, formats, provider, data, cached_data, last, calls>>

(***************************************************************************)
(* Bounds of the model.                                                    *)
(***************************************************************************)
\* The recorders are not called once the document holds this many entries
\* (summed over its seven sequences).
MaxEntries == 2

(***************************************************************************)
(* Python values.                                                          *)
(***************************************************************************)
NL == "\n"
SP == " "

None == [kind |-> "none"]
Str(s) == [kind |-> "str", chars |-> s]
Bool(b) == [kind |-> "bool", val |-> b]
\* A dict is the sequence of its (key, value) pairs in insertion order.
Dict(items) == [kind |-> "dict", items |-> items]

\* A byte string, with what the try branch of fix makes of it: "decoded"
\* when log.Encoding.detect names an encoding under which it decodes,
\* "undetected" when detect returns no encoding (decode(None) raises),
\* "decode_error" when decode raises under the encoding named, and
\* "unavailable" when the call of detect itself raises.
Bytes(s, outcome) == [kind |-> "bytes", chars |-> s, detect |-> outcome]

\* A byte that no decoding accepts, and the character a replacing decode
\* writes for it.
BadByte == "xFF"
Replacement == "?"

\* bool(v): Python truthiness
Truthy(v) ==
    CASE v.kind = "none" -> FALSE
      [] v.kind = "str"  -> v.chars # <<>>
      [] v.kind = "bool" -> v.val
      [] v.kind = "dict" -> v.items # <<>>
      [] v.kind = "StringIO" -> TRUE

\* key in d
HasKey(d, k) == \E i \in 1..Len(d.items) : d.items[i][1] = k

\* d[k], for a key that is present
Item(d, k) == d.items[CHOOSE i \in 1..Len(d.items) : d.items[i][1] = k][2]

\* d.get(k, None)
Get(d, k) == IF HasKey(d, k) THEN Item(d, k) ELSE None

\* str(v), as the %s conversion applies it
ToText(v) ==
    CASE v.kind = "none" -> <<"N", "o", "n", "e">>
      [] v.kind = "str"  -> v.chars
      [] v.kind = "bool" -> IF v.val THEN <<"T", "r", "u", "e">>
                                     ELSE <<"F", "a", "l", "s", "e">>

DynamicAnalysis ==
    Str(<<"D", "y", "n", "a", "m", "i", "c", SP, "A", "n", "a", "l", "y", "s", "i", "s">>)

ExploitTag == <<"[", "E", "x", "p", "l", "o", "i", "t", "]">>

(***************************************************************************)
(* The text normalizer.                                                    *)
(***************************************************************************)
\* thug_unicode(data): coercion of any value to text; of a byte string by a
\* decode that replaces what it cannot read
thug_unicode(v) ==
    IF v.kind = "bytes"
    THEN [i \in 1..Len(v.chars) |->
             IF v.chars[i] = BadByte THEN Replacement ELSE v.chars[i]]
    ELSE ToText(v)

\* text.replace("\n", "")
replace_nl(s) == SelectSeq(s, LAMBDA c : c # NL)

IsSpace(c) == c \in {SP, NL}

RECURSIVE lstrip(_)
lstrip(s) == IF s # <<>> /\ IsSpace(Head(s)) THEN lstrip(Tail(s)) ELSE s

RECURSIVE rstrip(_)
rstrip(s) ==
    IF s # <<>> /\ IsSpace(s[Len(s)]) THEN rstrip(SubSeq(s, 1, Len(s) - 1)) ELSE s

\* text.strip()
strip(s) == rstrip(lstrip(s))

\* The try branch of fix: data.decode(enc['encoding']).  Only a value that
\* has a decode method, and whose encoding is detected and decodes it,
\* reaches the end of it; None has none, and the AttributeError sends fix
\* to its except branch, as does every failure of detect and of decode.
Decodes(v) == v.kind = "str" \/ (v.kind = "bytes" /\ v.detect = "decoded")

\* fix without the strip() of its except branch
fix_untrimmed_fallback(v) ==
    IF Decodes(v)
    THEN Str(strip(replace_nl(v.chars)))
    ELSE Str(replace_nl(thug_unicode(v)))

\* fix without its replace("\n", ""): the text is only trimmed
fix_keeps_newlines(v) ==
    IF Decodes(v) THEN Str(strip(v.chars)) ELSE Str(strip(thug_unicode(v)))

fix(v) ==
    IF Decodes(v)
    THEN Str(strip(replace_nl(v.chars)))
    ELSE Str(strip(replace_nl(thug_unicode(v))))

(***************************************************************************)
(* The activation gate.                                                    *)
(***************************************************************************)
\* json_enabled without its test of the output formats
json_enabled_without_formats == json_logging \/ provider

json_enabled == json_logging \/ "json" \in formats \/ provider

(***************************************************************************)
(* The report document.                                                    *)
(***************************************************************************)
SeqFields == {"behavior", "code", "files", "connections", "locations",
              "exploits", "classifiers"}

\* str(datetime.datetime.now()) at construction, and the version block
CreationTime == Str(<<"t0">>)
ThugBlock == Dict(<< <<"version", Str(<<"v">>)>> >>)

InitData ==
    [url         |-> None,
     timestamp   |-> CreationTime,
     logtype     |-> Str(<<"json-log">>),
     thug        |-> ThugBlock,
     behavior    |-> <<>>,
     code        |-> <<>>,
     files       |-> <<>>,
     connections |-> <<>>,
     locations   |-> <<>>,
     exploits    |-> <<>>,
     classifiers |-> <<>>]

Entries(d) ==
    Len(d.behavior) + Len(d.code) + Len(d.files) + Len(d.connections)
        + Len(d.locations) + Len(d.exploits) + Len(d.classifiers)

\* A call that would leave more than MaxEntries entries is not made.
Bounded == Entries(data') <= MaxEntries

\* What a call leaves behind for its caller: None, a value, or an exception.
Raise(exc) == [kind |-> "exception", type |-> exc]

Returned(op, ret) == last' = [op |-> op, ret |-> ret]

(***************************************************************************)
(* json.dump(self.data, output, sort_keys = False, indent = 4).  The text  *)
(* is a sequence of JSON lexemes in the order json.dump writes them; the   *)
(* characters of a string literal are written one by one, a newline as     *)
(* the escape \n.  The whitespace that indent = 4 puts between lexemes is  *)
(* left out.                                                               *)
(***************************************************************************)
Q == "\""

RECURSIVE escape(_)
escape(s) ==
    IF s = <<>> THEN <<>>
    ELSE (IF Head(s) = NL THEN <<"\\", "n">> ELSE <<Head(s)>>) \o escape(Tail(s))

dumps_key(k) == <<Q, k, Q, ":">>

RECURSIVE dumps_value(_)
RECURSIVE dumps_items(_)
RECURSIVE dumps_elems(_)

\* the members of a dict, comma-separated
dumps_items(items) ==
    IF items = <<>> THEN <<>>
    ELSE dumps_key(items[1][1]) \o dumps_value(items[1][2])
         \o (IF Len(items) > 1 THEN <<",">> ELSE <<>>) \o dumps_items(Tail(items))

\* the elements of a list, comma-separated
dumps_elems(elems) ==
    IF elems = <<>> THEN <<>>
    ELSE dumps_value(elems[1])
         \o (IF Len(elems) > 1 THEN <<",">> ELSE <<>>) \o dumps_elems(Tail(elems))

dumps_value(v) ==
    CASE v.kind = "none" -> <<"null">>
      [] v.kind = "str"  -> <<Q>> \o escape(v.chars) \o <<Q>>
      [] v.kind = "bool" -> IF v.val THEN <<"true">> ELSE <<"false">>
      [] v.kind = "dict" -> <<"{">> \o dumps_items(v.items) \o <<"}">>
      [] v.kind = "list" -> <<"[">> \o dumps_elems(v.elems) \o <<"]">>

List(elems) == [kind |-> "list", elems |-> elems]

\* self.data as the dict json.dump walks, in the insertion order of __init__
AsDict(d) ==
    Dict(<< <<"url", d.url>>,
            <<"timestamp", d.timestamp>>,
            <<"logtype", d.logtype>>,
            <<"thug", d.thug>>,
            <<"behavior", List(d.behavior)>>,
            <<"code", List(d.code)>>,
            <<"files", List(d.files)>>,
            <<"connections", List(d.connections)>>,
            <<"locations", List(d.locations)>>,
            <<"exploits", List(d.exploits)>>,
            <<"classifiers", List(d.classifiers)>> >>)

dumps(d) == dumps_value(AsDict(d))

\* The StringIO that export fills and keeps.
StringIO(text) == [kind |-> "StringIO", value |-> text]

(***************************************************************************)
(* The values the callers pass.                                            *)
(***************************************************************************)
\* Text handed to fix: absent, empty, with a newline inside, with
\* whitespace around.
TextInputs == {None, Str(<<>>), Str(<<"a", NL, "b">>), Str(<<SP, "a", NL>>)}

\* What fix may be handed: text, a value that is not text, and byte
\* strings under each outcome of detection and decoding.
FixInputs ==
    {None,
     Str(<<SP, "a", NL, "b", SP>>),
     Bool(TRUE),
     Bytes(<<NL, "c", NL, SP>>, "decoded"),
     Bytes(<<SP, "d", NL>>, "undetected"),
     Bytes(<<"e", NL, BadByte, SP>>, "decode_error"),
     Bytes(<<NL, "f">>, "unavailable"),
     Bytes(<<NL, SP>>, "decode_error")}

UrlInputs == {Str(<<"a", NL, "b">>), Str(<<SP, "a", "b", NL>>)}

\* The urls of the classifier matches: the two of UrlInputs normalize to
\* the same text, the third to another.
ClassifierUrls == UrlInputs \cup {Str(<<"c">>)}

\* Names, rules and tags of the classifier matches; of the names and of the
\* rules, two that differ by a newline only.
ClassifierNames == {Str(<<"m">>), Str(<<"m", NL>>)}
RuleNames == {Str(<<"r">>), Str(<<"r", NL>>)}
TagInputs == {Str(<<"t">>), Str(<<>>)}

CveInputs == {None, Str(<<>>), Str(<<"C">>)}

\* A tag with a newline in it, for the fields that are stored as passed.
RawText == Str(<<"m", NL>>)

\* A method name other than the default.
WarnMethod == Str(<<"w", NL>>)

\* The destination page of the connections, with a trailing newline.
Destination == Str(<<"b", NL>>)

FlagsInputs ==
    {None, Dict(<<>>), Dict(<< <<"exploit", Bool(TRUE)>> >>),
     Dict(<< <<"exploit", Bool(FALSE)>> >>)}

\* The data mapping of log_location: with some of its keys, and None for a
\* caller that has no mapping.
LocationInputs == {None, Dict(<< <<"md5", Str(<<"a", NL>>)>> >>)}

\* The keys of the data mapping of log_location, and a value for each (the
\* content type with a newline in it).
LocationKeys == <<"content", "md5", "sha256", "fsize", "ctype", "mtype">>

LocationValue(k) ==
    CASE k = "content" -> Str(<<"x">>)
      [] k = "md5"     -> Str(<<"m">>)
      [] k = "sha256"  -> Str(<<"s">>)
      [] k = "fsize"   -> Str(<<"1">>)
      [] k = "ctype"   -> Str(<<"c", NL>>)
      [] k = "mtype"   -> Str(<<SP, "t">>)

\* the mapping that holds the keys of ks, in the order of LocationKeys
LocationDict(ks) ==
    Dict(SelectSeq([i \in 1..Len(LocationKeys) |->
                       <<LocationKeys[i], LocationValue(LocationKeys[i])>>],
                   LAMBDA p : p[1] \in ks))

\* Mappings with no key, with every key, with one key only and with one
\* key missing.
LocationData ==
    LET all == {LocationKeys[i] : i \in 1..Len(LocationKeys)}
    IN  {LocationDict(ks) :
            ks \in {{}, all} \cup {{k} : k \in all} \cup {all \ {k} : k \in all}}

\* flags omitted, and the known flag "error"
LocationFlags == {None, Dict(<< <<"error", Bool(TRUE)>> >>)}

FileInputs == {Dict(<< <<"md5", Str(<<"a", NL>>)>> >>)}

\* str(datetime.datetime.now()) at a call
Timestamps == {Str(<<"t1">>)}

Basedirs == {"d1", "d2"}

(***************************************************************************)
(* The event recorders.                                                    *)
(***************************************************************************)
\* insert(0, e) in the place of append(e)
Put_in_front(d, field, e) == [d EXCEPT ![field] = <<e>> \o @]

Put(d, field, e) == [d EXCEPT ![field] = Append(@, e)]

Quiet == calls' = <<>>

Config == <<json_logging, file_logging, formats, provider>>

\* add_behavior without its "if not cve and not description: return"
behavior_added_always(d, description, cve, method, now) ==
    [d EXCEPT !.behavior =
        Append(@, Dict(<< <<"description", fix(description)>>,
                          <<"cve", fix(cve)>>,
                          <<"method", fix(method)>>,
                          <<"timestamp", now>> >>))]

\* The body of add_behavior below its gate check, on document d.
behavior_added(d, description, cve, method, now) ==
    IF ~Truthy(cve) /\ ~Truthy(description)
    THEN d
    ELSE Put(d, "behavior",
             Dict(<< <<"description", fix(description)>>,
                     <<"cve", fix(cve)>>,
                     <<"method", fix(method)>>,
                     <<"timestamp", now>> >>))

\* log_connection tagging on the presence of the exploit flag, not its value
connection_note_by_key(source, destination, method, flags) ==
    LET text == ToText(source) \o <<SP, "-", "-", SP>> \o ToText(method)
                    \o <<SP, "-", "-", ">", SP>> \o ToText(destination)
    IN  IF HasKey(flags, "exploit")
        THEN Str(ExploitTag \o <<SP, SP>> \o text)
        ELSE Str(text)

\* "%s -- %s --> %s" % (source, method, destination), tagged for an exploit
connection_note(source, destination, method, flags) ==
    LET text == ToText(source) \o <<SP, "-", "-", SP>> \o ToText(method)
                    \o <<SP, "-", "-", ">", SP>> \o ToText(destination)
    IN  IF HasKey(flags, "exploit") /\ Truthy(Item(flags, "exploit"))
        THEN Str(ExploitTag \o <<SP, SP>> \o text)
        ELSE Str(text)

set_url(url) ==
    /\ data' = IF json_enabled THEN [data EXCEPT !.url = fix(url)] ELSE data
    /\ Returned("set_url", None)
    /\ Quiet
    /\ UNCHANGED <<Config, cached_data>>

\* add_code_snippet dropping the cached text when it records
add_code_snippet_invalidating(snippet, language, relationship, method) ==
    /\ data' = IF json_enabled
               THEN Put(data, "code",
                        Dict(<< <<"snippet", fix(snippet)>>,
                                <<"language", fix(language)>>,
                                <<"relationship", fix(relationship)>>,
                                <<"method", fix(method)>> >>))
               ELSE data
    /\ Bounded
    /\ cached_data' = IF json_enabled THEN None ELSE cached_data
    /\ Returned("add_code_snippet", None)
    /\ Quiet
    /\ UNCHANGED Config

add_code_snippet(snippet, language, relationship, method) ==
    /\ data' = IF json_enabled
               THEN Put(data, "code",
                        Dict(<< <<"snippet", fix(snippet)>>,
                                <<"language", fix(language)>>,
                                <<"relationship", fix(relationship)>>,
                                <<"method", fix(method)>> >>))
               ELSE data
    /\ Bounded
    /\ Returned("add_code_snippet", None)
    /\ Quiet
    /\ UNCHANGED <<Config, cached_data>>

\* log_connection writing its note for the connections flagged as exploits
\* only
log_connection_noting_exploits(source, destination, method, flags, now) ==
    LET f == IF flags = None THEN Dict(<<>>) ELSE flags
        noted == IF HasKey(f, "exploit") /\ Truthy(Item(f, "exploit"))
                 THEN behavior_added(data, connection_note(source, destination, method, f),
                                     None, DynamicAnalysis, now)
                 ELSE data
    IN  /\ data' = IF json_enabled
                   THEN Put(noted, "connections",
                            Dict(<< <<"source", fix(source)>>,
                                    <<"destination", fix(destination)>>,
                                    <<"method", method>>,
                                    <<"flags", f>> >>))
                   ELSE data
        /\ Bounded
        /\ Returned("log_connection", None)
        /\ Quiet
        /\ UNCHANGED <<Config, cached_data>>

log_connection(source, destination, method, flags, now) ==
    LET f == IF flags = None THEN Dict(<<>>) ELSE flags
        noted == behavior_added(data, connection_note(source, destination, method, f),
                                None, DynamicAnalysis, now)
    IN  /\ data' = IF json_enabled
                   THEN Put(noted, "connections",
                            Dict(<< <<"source", fix(source)>>,
                                    <<"destination", fix(destination)>>,
                                    <<"method", method>>,
                                    <<"flags", f>> >>))
                   ELSE data
        /\ Bounded
        /\ Returned("log_connection", None)
        /\ Quiet
        /\ UNCHANGED <<Config, cached_data>>

\* log_location reading the mapping by data[key] in the place of data.get
log_location_indexing(url, d, flags) ==
    LET f == IF flags = None THEN Dict(<<>>) ELSE flags
        raises == json_enabled
                    /\ \E k \in {"ctype", "md5", "sha256", "fsize", "mtype"} : ~HasKey(d, k)
    IN  /\ data' = IF json_enabled /\ ~raises
                   THEN Put(data, "locations",
                            Dict(<< <<"url", fix(url)>>,
                                    <<"content-type", Item(d, "ctype")>>,
                                    <<"md5", Item(d, "md5")>>,
                                    <<"sha256", Item(d, "sha256")>>,
                                    <<"flags", f>>,
                                    <<"size", Item(d, "fsize")>>,
                                    <<"mimetype", Item(d, "mtype")>> >>))
                   ELSE data
        /\ Bounded
        /\ Returned("log_location", IF raises THEN Raise("KeyError") ELSE None)
        /\ Quiet
        /\ UNCHANGED <<Config, cached_data>>

log_location(url, d, flags) ==
    LET f == IF flags = None THEN Dict(<<>>) ELSE flags
        raises == json_enabled /\ d.kind # "dict"
    IN  /\ data' = IF json_enabled /\ ~raises
                   THEN Put(data, "locations",
                            Dict(<< <<"url", fix(url)>>,
                                    <<"content-type", Get(d, "ctype")>>,
                                    <<"md5", Get(d, "md5")>>,
                                    <<"sha256", Get(d, "sha256")>>,
                                    <<"flags", f>>,
                                    <<"size", Get(d, "fsize")>>,
                                    <<"mimetype", Get(d, "mtype")>> >>))
                   ELSE data
        /\ Bounded
        /\ Returned("log_location", IF raises THEN Raise("AttributeError") ELSE None)
        /\ Quiet
        /\ UNCHANGED <<Config, cached_data>>

log_exploit_event(url, module, description, cve, d) ==
    /\ data' = IF json_enabled
               THEN Put(data, "exploits",
                        Dict(<< <<"url", fix(url)>>,
                                <<"module", module>>,
                                <<"description", description>>,
                                <<"cve", cve>>,
                                <<"data", d>> >>))
               ELSE data
    /\ Bounded
    /\ Returned("log_exploit_event", None)
    /\ Quiet
    /\ UNCHANGED <<Config, cached_data>>

\* log_classifier without its "if item not in" test
log_classifier_always(classifier, url, rule, tags) ==
    /\ data' = IF json_enabled
               THEN [data EXCEPT !.classifiers =
                        Append(@, Dict(<< <<"classifier", classifier>>,
                                          <<"url", fix(url)>>,
                                          <<"rule", rule>>,
                                          <<"tags", tags>> >>))]
               ELSE data
    /\ Bounded
    /\ Returned("log_classifier", None)
    /\ Quiet
    /\ UNCHANGED <<Config, cached_data>>

\* log_classifier looking the match up before its url is normalized
log_classifier_comparing_raw_url(classifier, url, rule, tags) ==
    LET item == Dict(<< <<"classifier", classifier>>,
                        <<"url", fix(url)>>,
                        <<"rule", rule>>,
                        <<"tags", tags>> >>)
        raw == Dict(<< <<"classifier", classifier>>,
                       <<"url", url>>,
                       <<"rule", rule>>,
                       <<"tags", tags>> >>)
        present == \E i \in 1..Len(data.classifiers) : data.classifiers[i] = raw
    IN  /\ data' = IF json_enabled /\ ~present
                   THEN Put(data, "classifiers", item)
                   ELSE data
        /\ Bounded
        /\ Returned("log_classifier", None)
        /\ Quiet
        /\ UNCHANGED <<Config, cached_data>>

log_classifier(classifier, url, rule, tags) ==
    LET item == Dict(<< <<"classifier", classifier>>,
                        <<"url", fix(url)>>,
                        <<"rule", rule>>,
                        <<"tags", tags>> >>)
        present == \E i \in 1..Len(data.classifiers) : data.classifiers[i] = item
    IN  /\ data' = IF json_enabled /\ ~present
                   THEN Put(data, "classifiers", item)
                   ELSE data
        /\ Bounded
        /\ Returned("log_classifier", None)
        /\ Quiet
        /\ UNCHANGED <<Config, cached_data>>

add_behavior(description, cve, method, now) ==
    /\ data' = IF json_enabled
               THEN behavior_added(data, description, cve, method, now)
               ELSE data
    /\ Bounded
    /\ Returned("add_behavior", None)
    /\ Quiet
    /\ UNCHANGED <<Config, cached_data>>

add_behavior_warn(description, cve, method, now) ==
    /\ data' = IF json_enabled
               THEN behavior_added(data, description, cve, method, now)
               ELSE data
    /\ Bounded
    /\ Returned("add_behavior_warn", None)
    /\ Quiet
    /\ UNCHANGED <<Config, cached_data>>

\* log_file without its gate check
log_file_ungated(d, url, params) ==
    /\ data' = [data EXCEPT !.files = Append(@, d)]
    /\ Bounded
    /\ Returned("log_file", None)
    /\ Quiet
    /\ UNCHANGED <<Config, cached_data>>

log_file(d, url, params) ==
    /\ data' = IF json_enabled THEN Put(data, "files", d) ELSE data
    /\ Bounded
    /\ Returned("log_file", None)
    /\ Quiet
    /\ UNCHANGED <<Config, cached_data>>

(***************************************************************************)
(* The exporter.                                                           *)
(***************************************************************************)
\* os.path.join(basedir, "analysis", "json")
Logdir(basedir) == <<basedir, "analysis", "json">>

\* store_content, then the Mapper: what export does when it persists
Persisted(basedir, text, d) ==
    << [fn |-> "store_content", logdir |-> Logdir(basedir), fname |-> "analysis.json",
        arg |-> text],
       [fn |-> "Mapper", logdir |-> Logdir(basedir), fname |-> "", arg |-> <<>>],
       [fn |-> "add_data", logdir |-> Logdir(basedir), fname |-> "", arg |-> d],
       [fn |-> "write_svg", logdir |-> Logdir(basedir), fname |-> "", arg |-> <<>>] >>

\* export persisting whenever file_logging is set
export_on_file_logging(basedir) ==
    LET output == dumps(data)
    IN  /\ calls' = IF json_enabled /\ file_logging
                    THEN Persisted(basedir, output, data)
                    ELSE <<>>
        /\ cached_data' = IF json_enabled THEN StringIO(output) ELSE cached_data
        /\ Returned("export", None)
        /\ UNCHANGED <<Config, data>>

\* export caching inside the persistence branch
export_caching_when_persisted(basedir) ==
    LET output == dumps(data)
        persists == json_enabled /\ json_logging /\ file_logging
    IN  /\ calls' = IF persists THEN Persisted(basedir, output, data) ELSE <<>>
        /\ cached_data' = IF persists THEN StringIO(output) ELSE cached_data
        /\ Returned("export", None)
        /\ UNCHANGED <<Config, data>>

export(basedir) ==
    LET output == dumps(data)
    IN  /\ calls' = IF json_enabled /\ json_logging /\ file_logging
                    THEN Persisted(basedir, output, data)
                    ELSE <<>>
        /\ cached_data' = IF json_enabled THEN StringIO(output) ELSE cached_data
        /\ Returned("export", None)
        /\ UNCHANGED <<Config, data>>

\* get_json_data serializing the document when nothing is cached
get_json_data_exporting(basedir) ==
    /\ cached_data' = IF Truthy(cached_data) THEN cached_data ELSE StringIO(dumps(data))
    /\ Returned("get_json_data", Str(cached_data'.value))
    /\ Quiet
    /\ UNCHANGED <<Config, data>>

\* get_json_data returning at a closed gate, as the other methods do
get_json_data_gated(basedir) ==
    /\ Returned("get_json_data",
                IF json_enabled /\ Truthy(cached_data) THEN Str(cached_data.value) ELSE None)
    /\ Quiet
    /\ UNCHANGED <<Config, data, cached_data>>

get_json_data(basedir) ==
    /\ Returned("get_json_data",
                IF Truthy(cached_data) THEN Str(cached_data.value) ELSE None)
    /\ Quiet
    /\ UNCHANGED <<Config, data, cached_data>>

(***************************************************************************)
(* The run configuration, which its owner may change between calls.        *)
(***************************************************************************)
set_json_logging(b) ==
    /\ json_logging' = b
    /\ json_logging # b
    /\ Returned("set_json_logging", None)
    /\ Quiet
    /\ UNCHANGED <<file_logging, formats, provider, data, cached_data>>

set_file_logging(b) ==
    /\ file_logging' = b
    /\ file_logging # b
    /\ Returned("set_file_logging", None)
    /\ Quiet
    /\ UNCHANGED <<json_logging, formats, provider, data, cached_data>>

set_formats(f) ==
    /\ formats' = f
    /\ formats # f
    /\ Returned("set_formats", None)
    /\ Quiet
    /\ UNCHANGED <<json_logging, file_logging, provider, data, cached_data>>

FormatSets == {{}, {"json"}}

(***************************************************************************)
(* The specifications.  Construction leaves the document empty and the     *)
(* cache unset; the run configuration is whatever its owner has set.       *)
(*                                                                         *)
(* Spec runs every method, with the gate opened and closed through         *)
(* json_logging alone.  SpecBehavior runs the methods that write behavior  *)
(* notes over all their argument shapes.  SpecExport runs the exporter,    *)
(* behind a few recorders, under every run configuration and every         *)
(* construction mode.                                                      *)
(***************************************************************************)
Constructed ==
    /\ data = InitData
    /\ cached_data = None
    /\ last = [op |-> "__init__", ret |-> None]
    /\ calls = <<>>

Init ==
    /\ json_logging \in BOOLEAN
    /\ file_logging = TRUE
    /\ formats = {}
    /\ provider = FALSE
    /\ Constructed

Next ==
    \/ set_url(Str(<<"a", NL, "b">>))
    \/ add_code_snippet(Str(<<"a", NL, "b">>), Str(<<"j", "s", NL>>), Str(<<SP, "r">>),
                        DynamicAnalysis)
    \/ \E flags \in {None, Dict(<< <<"exploit", Bool(TRUE)>> >>)}, now \in Timestamps :
           log_connection(Str(<<SP, "a", NL>>), Destination, RawText, flags, now)
    \/ \E now \in Timestamps :
           log_connection(Str(<<>>), Str(<<>>), Str(<<>>), None, now)
    \/ \E d \in LocationInputs : log_location(Str(<<"a", NL, "b">>), d, None)
    \/ log_exploit_event(Str(<<"a", NL, "b">>), RawText, RawText, None, None)
    \/ \E url \in UrlInputs \cup {Str(<<"c">>)} :
           log_classifier(RawText, url, RawText, Str(<<"t">>))
    \/ \E description \in {None, Str(<<"a", NL, "b">>)}, now \in Timestamps :
           add_behavior(description, None, DynamicAnalysis, now)
    \/ \E now \in Timestamps :
           add_behavior_warn(Str(<<>>), Str(<<"C", NL>>), WarnMethod, now)
    \/ \E d \in FileInputs : log_file(d, None, None)
    \/ export("d1")
    \/ get_json_data("d1")
    \/ \E b \in BOOLEAN : set_json_logging(b)

Spec == Init /\ [][Next]_vars

InitBehavior == Init

NextBehavior ==
    \/ \E description \in TextInputs, cve \in CveInputs, now \in Timestamps :
           add_behavior(description, cve, DynamicAnalysis, now)
    \/ \E description \in TextInputs, cve \in CveInputs, now \in Timestamps :
           add_behavior_warn(description, cve, WarnMethod, now)
    \/ \E source \in TextInputs, flags \in FlagsInputs, now \in Timestamps :
           log_connection(source, Destination, RawText, flags, now)
    \/ \E b \in BOOLEAN : set_json_logging(b)

SpecBehavior == InitBehavior /\ [][NextBehavior]_vars

InitExport ==
    /\ json_logging \in BOOLEAN
    /\ file_logging \in BOOLEAN
    /\ formats \in FormatSets
    /\ provider \in BOOLEAN
    /\ Constructed

NextExport ==
    \/ \E snippet \in {Str(<<"a", NL, "b">>), Str(<<"c">>)} :
           add_code_snippet(snippet, Str(<<"j", "s">>), Str(<<"s", "c", "r", "i", "p", "t">>),
                            DynamicAnalysis)
    \/ \E now \in Timestamps :
           log_connection(Str(<<"a">>), Destination, RawText,
                          Dict(<< <<"exploit", Bool(TRUE)>> >>), now)
    \/ log_location(Str(<<"a", NL, "b">>), Dict(<< <<"md5", Str(<<"a", NL>>)>> >>), None)
    \/ \E basedir \in Basedirs : export(basedir)
    \/ \E basedir \in Basedirs : get_json_data(basedir)
    \/ \E b \in BOOLEAN : set_json_logging(b)
    \/ \E b \in BOOLEAN : set_file_logging(b)
    \/ \E f \in FormatSets : set_formats(f)

SpecExport == InitExport /\ [][NextExport]_vars

\* SpecFix hands fix every shape of input, through set_url and through the
\* snippet of add_code_snippet.
InitFix == Init

NextFix ==
    \/ \E url \in FixInputs : set_url(url)
    \/ \E snippet \in FixInputs :
           add_code_snippet(snippet, Str(<<"j", "s">>), Str(<<"r">>), DynamicAnalysis)
    \/ \E b \in BOOLEAN : set_json_logging(b)

SpecFix == InitFix /\ [][NextFix]_vars

\* SpecLocation calls log_location with mappings that miss keys.
InitLocation == Init

NextLocation ==
    \/ \E d \in LocationData, flags \in LocationFlags :
           log_location(Str(<<"a", NL, "b">>), d, flags)
    \/ \E b \in BOOLEAN : set_json_logging(b)

SpecLocation == InitLocation /\ [][NextLocation]_vars

\* SpecClassifier calls log_classifier with matches that differ in each of
\* their four parts.
InitClassifier == Init

NextClassifier ==
    \/ \E classifier \in ClassifierNames, url \in ClassifierUrls,
          rule \in RuleNames, tags \in TagInputs :
           log_classifier(classifier, url, rule, tags)
    \/ \E b \in BOOLEAN : set_json_logging(b)

SpecClassifier == InitClassifier /\ [][NextClassifier]_vars

(***************************************************************************)
(* Vocabulary of the properties.                                           *)
(***************************************************************************)
\* The methods that consult the gate.
GatedMethods ==
    {"set_url", "add_code_snippet", "log_connection", "log_location",
     "log_exploit_event", "log_classifier", "add_behavior", "add_behavior_warn",
     "log_file", "export"}

IsPrefix(s, t) == Len(s) <= Len(t) /\ SubSeq(t, 1, Len(s)) = s

StartsWith(s, p) == IsPrefix(p, s)

HasNewline(v) == v.kind = "str" /\ \E i \in 1..Len(v.chars) : v.chars[i] = NL

\* every entry of sequence s holds, under each key of keys, a value without
\* a newline
NoNewlineIn(s, keys) ==
    \A i \in 1..Len(s) : \A k \in keys : ~HasNewline(Item(s[i], k))

SameExcept(fields) == \A f \in SeqFields \ fields : data'[f] = data[f]

(***************************************************************************)
(* C1.  A call of a gated method made while json_enabled is false returns  *)
(* without raising and leaves the document and the cached text as they     *)
(* were; export then writes no file and calls no renderer.                 *)
(***************************************************************************)
\* C1: with the gate closed a gated method changes nothing, calls nothing
\* and raises nothing
C1_ClosedGateNoEffect ==
    [][(~json_enabled /\ last'.op \in GatedMethods)
          => /\ data' = data
             /\ cached_data' = cached_data
             /\ calls' = <<>>
             /\ last'.ret = None]_vars

\* export was called with the gate closed, on a document holding entries
\* and with a text cached by an earlier export
C1_Witness ==
    /\ last.op = "export"
    /\ ~json_enabled
    /\ Entries(data) > 0
    /\ cached_data # None
    /\ calls = <<>>

(***************************************************************************)
(* C2.  classifiers never holds two equal entries.                         *)
(***************************************************************************)
\* C2: no two entries of classifiers are equal
C2_NoDuplicateClassifiers ==
    \A i, j \in 1..Len(data.classifiers) :
        i # j => data.classifiers[i] # data.classifiers[j]

\* log_classifier has recorded two different matches (the calls offer two
\* urls that normalize to the same text, and a third that does not)
C2_Witness ==
    /\ last.op = "log_classifier"
    /\ json_enabled
    /\ Len(data.classifiers) = 2

(***************************************************************************)
(* C9.  As specified: no text field of the document, the exploits' module  *)
(* and description, the classifiers' name and rule and the connections'    *)
(* method included, holds a newline.                                       *)
(***************************************************************************)
\* C9 as specified: no newline in any text field of the document
C9_EveryTextFieldNormalized ==
    /\ ~HasNewline(data.url)
    /\ NoNewlineIn(data.behavior, {"description", "cve", "method"})
    /\ NoNewlineIn(data.code, {"snippet", "language", "relationship", "method"})
    /\ NoNewlineIn(data.connections, {"source", "destination", "method"})
    /\ NoNewlineIn(data.locations, {"url"})
    /\ NoNewlineIn(data.exploits, {"url", "module", "description"})
    /\ NoNewlineIn(data.classifiers, {"classifier", "url", "rule"})

(***************************************************************************)
(* C9, amended.  The fields the recorders hand to fix hold no newline:     *)
(* url; a behavior note's description, cve and method; the four fields of  *)
(* a code entry; a connection's source and destination; the url of a       *)
(* location, of an exploit and of a classifier match.                      *)
(***************************************************************************)
\* C9 amended: no newline in the fields that went through fix
C9_FixedFieldsNormalized ==
    /\ ~HasNewline(data.url)
    /\ NoNewlineIn(data.behavior, {"description", "cve", "method"})
    /\ NoNewlineIn(data.code, {"snippet", "language", "relationship", "method"})
    /\ NoNewlineIn(data.connections, {"source", "destination"})
    /\ NoNewlineIn(data.locations, {"url"})
    /\ NoNewlineIn(data.exploits, {"url"})
    /\ NoNewlineIn(data.classifiers, {"url"})

\* a code entry and an exploit recorded from text with newlines: the
\* snippet has lost its newline, the exploit's module has kept it
C9_Witness ==
    /\ Len(data.code) = 1
    /\ Item(data.code[1], "snippet") = Str(<<"a", "b">>)
    /\ Len(data.exploits) = 1
    /\ Item(data.exploits[1], "url") = Str(<<"a", "b">>)
    /\ HasNewline(Item(data.exploits[1], "module"))

(***************************************************************************)
(* C10.  Each of the seven sequences is append-only: a step leaves its     *)
(* former content as a prefix and adds at most one entry.                  *)
(***************************************************************************)
\* C10: every step leaves each sequence as a prefix of itself, at most one
\* entry longer
C10_AppendOnly ==
    [][\A f \in SeqFields :
          /\ IsPrefix(data[f], data'[f])
          /\ Len(data'[f]) <= Len(data[f]) + 1]_vars

\* a second classifier match was appended behind the first
C10_Witness ==
    /\ last.op = "log_classifier"
    /\ Len(data.classifiers) = 2
    /\ Item(data.classifiers[1], "url") # Item(data.classifiers[2], "url")

(***************************************************************************)
(* C3.  As specified: with the gate open, log_connection appends one entry *)
(* to connections and one to behavior and nothing else, and the note's     *)
(* description starts with [Exploit] when flags["exploit"] is truthy and   *)
(* is otherwise the very text "{source} -- {method} --> {destination}".    *)
(***************************************************************************)
NoteText(source, method, destination) ==
    ToText(source) \o <<SP, "-", "-", SP>> \o ToText(method)
        \o <<SP, "-", "-", ">", SP>> \o ToText(destination)

FlaggedExploit(flags) ==
    flags \in {Dict(<< <<"exploit", Bool(TRUE)>> >>)}

\* the step appended one connection and one note and touched nothing else
OneConnectionOneNote ==
    /\ Len(data'.connections) = Len(data.connections) + 1
    /\ Len(data'.behavior) = Len(data.behavior) + 1
    /\ IsPrefix(data.connections, data'.connections)
    /\ IsPrefix(data.behavior, data'.behavior)
    /\ SameExcept({"connections", "behavior"})
    /\ data'.url = data.url

LastNote == Item(data'.behavior[Len(data'.behavior)], "description").chars

\* C3 as specified: one connection, one note, and the note is the tagged or
\* the literal text
C3_NoteIsLiteralText ==
    [][\A source \in TextInputs, flags \in FlagsInputs, now \in Timestamps :
          (json_enabled /\ log_connection(source, Destination, RawText, flags, now))
             => /\ OneConnectionOneNote
                /\ IF FlaggedExploit(flags)
                   THEN StartsWith(LastNote, ExploitTag)
                   ELSE LastNote = NoteText(source, RawText, Destination)]_vars

(***************************************************************************)
(* C3, amended.  The note's description is the normalized form (newlines  *)
(* removed, then the whitespace around it trimmed) of the text: of         *)
(* "[Exploit]  {source} -- {method} --> {destination}" when                *)
(* flags["exploit"] is truthy, so that it starts with [Exploit], and of    *)
(* "{source} -- {method} --> {destination}" otherwise.                     *)
(***************************************************************************)
\* C3 amended: one connection, one note, and the note is the normalized
\* tagged or untagged text
C3_NoteIsNormalizedText ==
    [][\A source \in TextInputs, flags \in FlagsInputs, now \in Timestamps :
          (json_enabled /\ log_connection(source, Destination, RawText, flags, now))
             => /\ OneConnectionOneNote
                /\ LET text == NoteText(source, RawText, Destination)
                   IN  IF FlaggedExploit(flags)
                       THEN /\ StartsWith(LastNote, ExploitTag)
                            /\ LastNote = strip(replace_nl(ExploitTag \o <<SP, SP>> \o text))
                       ELSE LastNote = strip(replace_nl(text))]_vars

\* log_connection has recorded a connection flagged as an exploit, and its
\* tagged note
C3_Witness ==
    /\ last.op = "log_connection"
    /\ json_enabled
    /\ Len(data.connections) = 1
    /\ Item(data.connections[1], "flags") = Dict(<< <<"exploit", Bool(TRUE)>> >>)
    /\ Len(data.behavior) = 1
    /\ StartsWith(Item(data.behavior[1], "description").chars, ExploitTag)

(***************************************************************************)
(* C4.  With the gate open, add_behavior appends nothing when description  *)
(* and cve are both None or empty, appends one entry otherwise, and        *)
(* changes no other sequence.                                              *)
(***************************************************************************)
Absent(v) == v = None \/ v = Str(<<>>)

\* C4: add_behavior appends to behavior exactly when description or cve is
\* given, and to nothing else
C4_BehaviorSuppression ==
    [][\A description \in TextInputs, cve \in CveInputs, now \in Timestamps :
          (json_enabled /\ add_behavior(description, cve, DynamicAnalysis, now))
             => /\ IF Absent(description) /\ Absent(cve)
                   THEN data'.behavior = data.behavior
                   ELSE /\ Len(data'.behavior) = Len(data.behavior) + 1
                        /\ IsPrefix(data.behavior, data'.behavior)
                /\ SameExcept({"behavior"})
                /\ data'.url = data.url]_vars

\* add_behavior was called with the gate open and nothing is recorded: a
\* call without description and cve
C4_Witness ==
    /\ last.op = "add_behavior"
    /\ json_enabled
    /\ data.behavior = <<>>

(***************************************************************************)
(* C8.  As specified: fix(None) is None, so that add_behavior stores None  *)
(* for a cve, or a description, that the caller left out.                  *)
(***************************************************************************)
\* C8 as specified: an appended note holds None for the cve, or the
\* description, that was passed as None
C8_NonePropagates ==
    [][\A description \in TextInputs, cve \in CveInputs, now \in Timestamps :
          (/\ json_enabled
           /\ add_behavior(description, cve, DynamicAnalysis, now)
           /\ Len(data'.behavior) = Len(data.behavior) + 1)
             => LET e == data'.behavior[Len(data'.behavior)]
                IN  /\ cve = None => Item(e, "cve") = None
                    /\ description = None => Item(e, "description") = None]_vars

(***************************************************************************)
(* Reading the cached text back: a decoder of the lexeme sequence that     *)
(* dumps writes, as json.loads would read it.  Each operator reads one     *)
(* construct from position i of the lexemes t and returns the Python       *)
(* value it stands for with the position behind it.                        *)
(***************************************************************************)
RECURSIVE loads_value(_, _)
RECURSIVE loads_chars(_, _, _)
RECURSIVE loads_members(_, _, _)
RECURSIVE loads_elements(_, _, _)

\* the characters of a string literal, up to its closing quote
loads_chars(t, i, acc) ==
    IF t[i] = Q THEN [val |-> Str(acc), next |-> i + 1]
    ELSE IF t[i] = "\\"
         THEN loads_chars(t, i + 2, Append(acc, IF t[i + 1] = "n" THEN NL ELSE t[i + 1]))
         ELSE loads_chars(t, i + 1, Append(acc, t[i]))

\* the members of an object, from the key at position i to the closing brace
loads_members(t, i, acc) ==
    LET r == loads_value(t, i + 4)
        got == Append(acc, <<t[i + 1], r.val>>)
    IN  IF t[r.next] = ","
        THEN loads_members(t, r.next + 1, got)
        ELSE [val |-> Dict(got), next |-> r.next + 1]

\* the elements of an array, up to the closing bracket
loads_elements(t, i, acc) ==
    LET r == loads_value(t, i)
        got == Append(acc, r.val)
    IN  IF t[r.next] = ","
        THEN loads_elements(t, r.next + 1, got)
        ELSE [val |-> List(got), next |-> r.next + 1]

loads_value(t, i) ==
    CASE t[i] = "null"  -> [val |-> None, next |-> i + 1]
      [] t[i] = "true"  -> [val |-> Bool(TRUE), next |-> i + 1]
      [] t[i] = "false" -> [val |-> Bool(FALSE), next |-> i + 1]
      [] t[i] = Q       -> loads_chars(t, i + 1, <<>>)
      [] t[i] = "{"     -> IF t[i + 1] = "}"
                           THEN [val |-> Dict(<<>>), next |-> i + 2]
                           ELSE loads_members(t, i + 1, <<>>)
      [] t[i] = "["     -> IF t[i + 1] = "]"
                           THEN [val |-> List(<<>>), next |-> i + 2]
                           ELSE loads_elements(t, i + 1, <<>>)

loads(t) == loads_value(t, 1).val

(***************************************************************************)
(* C5.  get_json_data returns None as long as no export has run with the   *)
(* gate open, and the cached text afterwards, the same on every call; it   *)
(* runs no export and changes neither the document nor the cache.  The     *)
(* cache is unset at construction and only an export with the gate open    *)
(* sets it.                                                                *)
(***************************************************************************)
\* C5: get_json_data returns what is cached and changes nothing; only an
\* export with the gate open changes the cache
C5_GetJsonData ==
    /\ cached_data = None
    /\ [][/\ last'.op = "get_json_data"
              => /\ data' = data
                 /\ cached_data' = cached_data
                 /\ calls' = <<>>
                 /\ last'.ret = IF cached_data = None THEN None
                                ELSE Str(cached_data.value)
          /\ cached_data' # cached_data
              => /\ last'.op = "export"
                 /\ json_enabled
                 /\ cached_data' # None
          /\ (last.op = "get_json_data" /\ last'.op = "get_json_data")
              => last'.ret = last.ret]_vars

\* get_json_data has returned the text of an earlier export
C5_Witness ==
    /\ last.op = "get_json_data"
    /\ last.ret # None
    /\ last.ret = Str(cached_data.value)

(***************************************************************************)
(* C6.  After an export with the gate open the cached text reads back as   *)
(* the document as it stood at the call, whether or not the file was       *)
(* written, with every snippet in its normalized form; export leaves the   *)
(* document as it was.  (last names export only until the next call or     *)
(* change of configuration, so the gate is the one the export saw.)        *)
(***************************************************************************)
CacheReadsBack ==
    (last.op = "export" /\ json_enabled)
       => /\ cached_data # None
          /\ LET read == loads(cached_data.value)
             IN  /\ read = AsDict(data)
                 /\ \A i \in 1..Len(data.code) :
                       ~HasNewline(Item(Item(read, "code").elems[i], "snippet"))

\* C6: the cache of an export reads back as the document, and export does
\* not change the document
C6_CacheIsTheDocument ==
    /\ []CacheReadsBack
    /\ [][last'.op = "export" => data' = data]_vars

\* an export that wrote no file has cached a document whose first snippet,
\* recorded as "a\nb", reads back as "ab", with its language "js"
C6_Witness ==
    /\ last.op = "export"
    /\ json_enabled
    /\ calls = <<>>
    /\ cached_data # None
    /\ Len(data.code) = 2
    /\ LET code == Item(loads(cached_data.value), "code").elems
       IN  /\ Len(code) = 2
           /\ Item(code[1], "snippet") = Str(<<"a", "b">>)
           /\ Item(code[1], "language") = Str(<<"j", "s">>)

(***************************************************************************)
(* C7.  As specified: an export with the gate open, whichever of its three *)
(* conditions opens it, writes the file and calls the renderer when        *)
(* file_logging is set, and does neither when it is not.                   *)
(***************************************************************************)
\* the step wrote the cached text to <basedir>/analysis/json/analysis.json
\* and then handed the document to the renderer
WroteAndRendered ==
    /\ Len(calls') = 4
    /\ calls'[1].fn = "store_content"
    /\ \E basedir \in Basedirs : calls'[1].logdir = <<basedir, "analysis", "json">>
    /\ calls'[1].fname = "analysis.json"
    /\ calls'[1].arg = cached_data'.value
    /\ calls'[2].fn = "Mapper" /\ calls'[2].logdir = calls'[1].logdir
    /\ calls'[3].fn = "add_data" /\ calls'[3].arg = data
    /\ calls'[4].fn = "write_svg"

\* C7 as specified: an export with the gate open persists exactly when
\* file_logging is set
C7_PersistsOnFileLogging ==
    [][(last'.op = "export" /\ json_enabled)
          => IF file_logging THEN WroteAndRendered ELSE calls' = <<>>]_vars

(***************************************************************************)
(* C7, amended.  An export with the gate open writes the file and calls    *)
(* the renderer exactly when json_logging and file_logging are both set;   *)
(* with the gate open through the output formats or the provider mode      *)
(* alone, or without file_logging, it does neither.                        *)
(***************************************************************************)
\* C7 amended: an export with the gate open persists exactly when
\* json_logging and file_logging are set
C7_PersistsOnJsonAndFileLogging ==
    [][(last'.op = "export" /\ json_enabled)
          => IF json_logging /\ file_logging THEN WroteAndRendered
                                               ELSE calls' = <<>>]_vars

\* an export in provider mode, with file_logging set and json_logging not:
\* the text is cached and nothing is written
C7_Witness ==
    /\ last.op = "export"
    /\ provider /\ ~json_logging /\ file_logging
    /\ cached_data # None
    /\ calls = <<>>

(***************************************************************************)
(* C11.  The gate is open exactly when json_logging is set, or "json" is   *)
(* among the output formats, or the recorder was constructed as a          *)
(* provider, and every call reads it anew: a recorder that always appends  *)
(* changes the document if and only if one of the three holds at that      *)
(* call, whatever the gate was at the calls before; no gated method        *)
(* changes it otherwise, and a change of the configuration leaves what is  *)
(* recorded in place.                                                      *)
(***************************************************************************)
\* The recorders that append an entry on every call that passes the gate.
AlwaysRecording ==
    {"add_code_snippet", "log_connection", "log_location", "log_exploit_event",
     "log_file"}

ConfigurationSteps == {"set_json_logging", "set_file_logging", "set_formats"}

\* C11: a recorder call takes effect exactly when json_logging, "json" in
\* formats or provider holds at that call
C11_GateReadAtEveryCall ==
    [][LET open == json_logging \/ "json" \in formats \/ provider
       IN  /\ last'.op \in AlwaysRecording
               => /\ (data' # data) <=> open
                  /\ open => Entries(data') > Entries(data)
           /\ (last'.op \in GatedMethods /\ ~open)
               => (data' = data /\ cached_data' = cached_data)
           /\ last'.op \in ConfigurationSteps
               => (data' = data /\ cached_data' = cached_data)]_vars

\* a recorder was called with all three conditions false and recorded
\* nothing, on a document that holds an entry recorded while the gate was
\* open: the gate has been closed since
C11_Witness ==
    /\ last.op = "add_code_snippet"
    /\ ~json_logging /\ "json" \notin formats /\ ~provider
    /\ data.code = <<>>
    /\ Len(data.connections) = 1

(***************************************************************************)
(* C12.  fix never raises: whatever it is handed other than None, and      *)
(* whether detection and decoding succeed or fail, the caller gets no      *)
(* exception and the result is a text without a newline and without        *)
(* whitespace around it; where the try branch fails it is the fallback     *)
(* coercion, with its newlines removed and trimmed.                        *)
(***************************************************************************)
Trimmed(s) == s = <<>> \/ (~IsSpace(s[1]) /\ ~IsSpace(s[Len(s)]))

\* the try branch of fix fails on v: v is not text, or a byte string whose
\* encoding is not detected, does not decode, or whose detector fails
FailsToDecode(v) ==
    \/ v.kind \notin {"str", "bytes"}
    \/ v.kind = "bytes" /\ v.detect \in {"undetected", "decode_error", "unavailable"}

IsNormalizedText(v) == v.kind = "str" /\ ~HasNewline(v) /\ Trimmed(v.chars)

\* C12: fix returns a text without newlines and without whitespace around
\* it for every input other than None, through the fallback when decoding
\* fails, and the caller sees no exception
C12_FixNeverRaises ==
    /\ [](\A i \in 1..Len(data.code) : IsNormalizedText(Item(data.code[i], "snippet")))
    /\ [][\A v \in FixInputs \ {None} :
              (json_enabled /\ set_url(v))
                 => /\ last'.ret = None
                    /\ IsNormalizedText(data'.url)
                    /\ FailsToDecode(v)
                        => data'.url.chars = strip(replace_nl(thug_unicode(v)))]_vars

\* set_url was handed a byte string that does not decode: the url is its
\* replacing decode, without the newline and the trailing space
C12_Witness ==
    /\ last.op = "set_url"
    /\ json_enabled
    /\ data.url = Str(<<"e", Replacement>>)

(***************************************************************************)
(* C13.  With the gate open, log_location raises nothing for a mapping     *)
(* that misses any of its keys: it appends one entry to locations and      *)
(* touches nothing else; the entry holds the normalized url, the values    *)
(* of ctype, md5, sha256, fsize and mtype as they were passed under        *)
(* content-type, md5, sha256, size and mimetype, None for each key that    *)
(* is missing, and the flags passed (an empty mapping for none).           *)
(***************************************************************************)
\* the fields of a locations entry and the keys of the mapping they copy
LocationFields ==
    {<<"content-type", "ctype">>, <<"md5", "md5">>, <<"sha256", "sha256">>,
     <<"size", "fsize">>, <<"mimetype", "mtype">>}

\* C13: log_location appends one entry that copies the keys present and
\* holds None for the keys missing, without raising
C13_LocationDefaults ==
    [][\A d \in LocationData, flags \in LocationFlags :
          (json_enabled /\ log_location(Str(<<"a", NL, "b">>), d, flags))
             => /\ last'.ret = None
                /\ Len(data'.locations) = Len(data.locations) + 1
                /\ IsPrefix(data.locations, data'.locations)
                /\ SameExcept({"locations"})
                /\ data'.url = data.url
                /\ LET e == data'.locations[Len(data'.locations)]
                   IN  /\ Item(e, "url") = Str(<<"a", "b">>)
                       /\ \A p \in LocationFields :
                             Item(e, p[1]) = IF \E i \in 1..Len(d.items) : d.items[i][1] = p[2]
                                             THEN Item(d, p[2])
                                             ELSE None
                       /\ Item(e, "flags") = IF flags = None THEN Dict(<<>>) ELSE flags]_vars

\* log_location was handed a mapping that holds md5 alone, and no flags:
\* the entry has the md5, None in the place of the rest, and empty flags
C13_Witness ==
    /\ last = [op |-> "log_location", ret |-> None]
    /\ json_enabled
    /\ Len(data.locations) = 1
    /\ LET e == data.locations[1]
       IN  /\ Item(e, "md5") = Str(<<"m">>)
           /\ Item(e, "sha256") = None
           /\ Item(e, "content-type") = None
           /\ Item(e, "size") = None
           /\ Item(e, "mimetype") = None
           /\ Item(e, "flags") = Dict(<<>>)

(***************************************************************************)
(* C14.  behavior never holds fewer entries than connections: the only     *)
(* step that adds a connection is a log_connection, and it adds, with the  *)
(* connection, the note derived from it, also when source, destination     *)
(* and method are all empty.                                               *)
(***************************************************************************)
\* text s holds the arrow of a connection note
HasArrow(s) ==
    \E i \in 1..(Len(s) - 2) : SubSeq(s, i, i + 2) = <<"-", "-", ">">>

\* C14: behavior holds at least as many entries as connections, and every
\* step that adds a connection adds its note
C14_EveryConnectionHasItsNote ==
    /\ [](Len(data.behavior) >= Len(data.connections))
    /\ [][Len(data'.connections) > Len(data.connections)
             => /\ last'.op = "log_connection"
                /\ Len(data'.connections) = Len(data.connections) + 1
                /\ Len(data'.behavior) = Len(data.behavior) + 1
                /\ IsPrefix(data.behavior, data'.behavior)
                /\ HasArrow(Item(data'.behavior[Len(data'.behavior)],
                                 "description").chars)]_vars

\* a connection with empty source, destination and method is recorded,
\* with its note " --  --> " in its normalized form
C14_Witness ==
    /\ last.op = "log_connection"
    /\ json_enabled
    /\ Len(data.connections) = 1
    /\ Item(data.connections[1], "source") = Str(<<>>)
    /\ Item(data.connections[1], "destination") = Str(<<>>)
    /\ Item(data.connections[1], "method") = Str(<<>>)
    /\ Len(data.behavior) = 1
    /\ Item(data.behavior[1], "description") = Str(<<"-", "-", SP, SP, "-", "-", ">">>)

(***************************************************************************)
(* C15.  The recorders never touch the cached text: a recorder call, a     *)
(* change of configuration and an export at a closed gate leave it as it   *)
(* was, so that it stays the text of the last export made with the gate    *)
(* open while the document grows: it reads back as a document whose        *)
(* sequences are the beginnings of the present ones, and get_json_data     *)
(* returns it.                                                             *)
(***************************************************************************)
Recorders == GatedMethods \ {"export"}

\* the cached text reads back as an earlier stage of the document
CacheIsASnapshot ==
    cached_data # None
       => LET read == loads(cached_data.value)
          IN  /\ \A f \in SeqFields : IsPrefix(Item(read, f).elems, data[f])
              /\ last.op = "get_json_data" => last.ret = Str(cached_data.value)

\* C15: recorder calls and exports at a closed gate leave the cached text
\* as it was, while the document changes
C15_RecordersLeaveTheCache ==
    /\ []CacheIsASnapshot
    /\ [][(\/ last'.op \in Recorders
           \/ last'.op \in ConfigurationSteps
           \/ last'.op = "export" /\ ~json_enabled)
             => cached_data' = cached_data]_vars

\* get_json_data returns a text that holds one code entry while the
\* document, recorded into since the export, holds two
C15_Witness ==
    /\ last.op = "get_json_data"
    /\ json_enabled
    /\ cached_data # None
    /\ last.ret = Str(cached_data.value)
    /\ Len(data.code) = 2
    /\ Len(Item(loads(cached_data.value), "code").elems) = 1

(***************************************************************************)
(* C16.  get_json_data does not consult the gate: what it returns is       *)
(* decided by the cache alone.  It returns the cached text also when the   *)
(* gate is closed at the call, and None also when the gate is open and no  *)
(* export has cached a text.  (last names get_json_data only until the     *)
(* next call or change of configuration, so the gate is the one the call   *)
(* saw.)                                                                   *)
(***************************************************************************)
\* C16: get_json_data returns the cached text or None, whatever the gate
C16_GetJsonDataIgnoresGate ==
    last.op = "get_json_data"
       => /\ \A open \in BOOLEAN :
                (json_enabled = open /\ cached_data # None)
                   => last.ret = Str(cached_data.value)
          /\ \A open \in BOOLEAN :
                (json_enabled = open /\ cached_data = None) => last.ret = None

\* get_json_data was called with the gate closed and returned the text
\* cached while it was open
C16_Witness ==
    /\ last.op = "get_json_data"
    /\ ~json_enabled
    /\ cached_data # None
    /\ last.ret = Str(cached_data.value)
    /\ last.ret # None

(***************************************************************************)
(* C17.  log_classifier looks a match up by its normalized url: with the   *)
(* gate open, a call whose classifier, rule and tags are those of an       *)
(* entry, and whose url normalizes to that entry's url, adds nothing; any  *)
(* other call, one that differs in the classifier, the rule or the tags    *)
(* by as little as a newline included, appends its own entry.              *)
(***************************************************************************)
\* what the urls of ClassifierUrls normalize to
NormalizedUrl(url) == IF url \in UrlInputs THEN Str(<<"a", "b">>) ELSE Str(<<"c">>)

\* entry e is the match (classifier, url, rule, tags), its url normalized
IsMatch(e, classifier, url, rule, tags) ==
    /\ Item(e, "classifier") = classifier
    /\ Item(e, "url") = NormalizedUrl(url)
    /\ Item(e, "rule") = rule
    /\ Item(e, "tags") = tags

\* C17: a match is a duplicate when classifier, rule, tags and the
\* normalized url are those of an entry, and is appended otherwise
C17_DedupOnNormalizedUrl ==
    [][\A classifier \in ClassifierNames, url \in ClassifierUrls,
          rule \in RuleNames, tags \in TagInputs :
          (json_enabled /\ log_classifier(classifier, url, rule, tags))
             => IF \E i \in 1..Len(data.classifiers) :
                      IsMatch(data.classifiers[i], classifier, url, rule, tags)
                THEN data' = data
                ELSE /\ Len(data'.classifiers) = Len(data.classifiers) + 1
                     /\ IsPrefix(data.classifiers, data'.classifiers)
                     /\ IsMatch(data'.classifiers[Len(data'.classifiers)],
                                classifier, url, rule, tags)]_vars

\* two matches with the same normalized url, rule and tags are both
\* recorded: their classifiers differ by a newline
C17_Witness ==
    /\ last.op = "log_classifier"
    /\ json_enabled
    /\ Len(data.classifiers) = 2
    /\ Item(data.classifiers[1], "url") = Str(<<"a", "b">>)
    /\ Item(data.classifiers[2], "url") = Str(<<"a", "b">>)
    /\ Item(data.classifiers[1], "rule") = Item(data.classifiers[2], "rule")
    /\ Item(data.classifiers[1], "tags") = Item(data.classifiers[2], "tags")
    /\ Item(data.classifiers[1], "classifier") = Str(<<"m">>)
    /\ Item(data.classifiers[2], "classifier") = Str(<<"m", NL>>)

====
